---- MODULE Spec2Model ----
(***************************************************************************)
(* Model of the roll game engine of sockets/cashier/credit/index.js:       *)
(* round generation against the seed store (rollGenerateGame), the view    *)
(* sanitizer (rollSanitizeGame), the bet validators and the outcome        *)
(* calculator (rollGetOutcome, rollIsHashDivisible).                       *)
(***************************************************************************)
EXTENDS Integers, Sequences, FiniteSets, TLC

(***************************************************************************)
(* Bounds of the model.                                                    *)
(***************************************************************************)
\* rollGenerateGame invocations in one behaviour
MaxCalls == 3

\* bet admissions in one behaviour
MaxAdmits == 3
\* longest run of one digit at the head of a hash given to rollGetOutcome
MaxRun == 14
\* longest tail of free digits after that run
MaxTail == 2

VARIABLES
    seeds,          \* RollSeed collection: seeds[_id] is the document's state
    games,          \* RollGame collection: games[_id] is the document
    pc,             \* per caller: position inside rollGenerateGame
    seedDatabase,   \* per caller: the local seedDatabase (its _id, NoSeed for null)
    gameWrite,      \* per caller: RollGame.create of the Promise.all
    seedWrite,      \* per caller: RollSeed.findByIdAndUpdate of the Promise.all
    created,        \* per caller: _id of the game its RollGame.create made
    calls,          \* invocations started so far
    view,           \* the last sanitized game handed to clients
    combined,       \* rollGetOutcome: the combined hash, a sequence of hex digits
    outcome,        \* rollGetOutcome: the value returned (NoOutcome before the call)
    minAmount,      \* Math.floor(process.env.ROLL_MIN_AMOUNT * 1000)
    bets,           \* the bets stored for the current game
    lock,           \* the request holding the round's admission lock, or NoRequest
    apc,            \* per request: position inside the bet admission
    adata,          \* per request: the bet data it carries
    aresult,        \* per request: how its last admission ended
    admits,         \* admissions started so far
    betData,        \* the bet data given to rollCheckSendBetData or rollCheckSendBetUser
    verdict,        \* rollCheckSendBetData: what it threw, OK, or NoVerdict
    maxAmount,      \* Math.floor(process.env.ROLL_MAX_AMOUNT * 1000)
    maxProfit,      \* Math.floor(process.env.ROLL_MAX_PROFIT * 1000)
    balance,        \* rollCheckSendBetUser: user.balance
    userVerdict,    \* rollCheckSendBetUser: what it threw, OK, or NoVerdict
    betGiven,       \* the bet given to rollSanitizeBets and rollSanitizeBet
    sanitizedBets,  \* what rollSanitizeBets([betGiven]) returned or threw
    sanitizedBet,   \* what rollSanitizeBet(betGiven) returned or threw
    handlers        \* per socket handler: its invocation

roundVars == <<seeds, games, pc, seedDatabase, gameWrite, seedWrite, created, calls, view>>

\* the concurrent callers of rollGenerateGame
Callers == {"c1", "c2"}
NoSeed == 0
NoGame == 0
NoView == [game |-> NoGame]

outcomeVars == <<combined, outcome>>
betVars == <<minAmount, bets, lock, apc, adata, aresult, admits>>
formatVars == <<betData, verdict>>
configVars == <<maxAmount, maxProfit>>
userVars == <<balance, userVerdict>>
sanitizeVars == <<betGiven, sanitizedBets, sanitizedBet>>
socketVars == <<handlers>>
laterVars == <<configVars, userVars, sanitizeVars, socketVars>>
NoOutcome == <<>>

(***************************************************************************)
(* JavaScript numbers.  A non-negative integer is three limbs of 26 bits,  *)
(* least significant first, so that every step stays inside the checker's  *)
(* integers; Fl* operators round as IEEE-754 doubles do (53 significant    *)
(* bits, ties to even).                                                    *)
(***************************************************************************)
B == 2^26
BZero == <<0, 0, 0>>
BInt(n) == <<n % B, n \div B, 0>>

BAdd(X, Y) ==
    LET s0 == X[1] + Y[1]
        s1 == X[2] + Y[2] + (s0 \div B)
    IN  <<s0 % B, s1 % B, X[3] + Y[3] + (s1 \div B)>>

\* X - Y for X >= Y
BSub(X, Y) ==
    LET d0 == X[1] - Y[1]
        d1 == X[2] - Y[2] - (IF d0 < 0 THEN 1 ELSE 0)
    IN  <<d0 % B, d1 % B, X[3] - Y[3] - (IF d1 < 0 THEN 1 ELSE 0)>>

BLt(X, Y) ==
    \/ X[3] < Y[3]
    \/ X[3] = Y[3] /\ X[2] < Y[2]
    \/ X[3] = Y[3] /\ X[2] = Y[2] /\ X[1] < Y[1]

BLe(X, Y) == ~BLt(Y, X)

BDbl(X) == BAdd(X, X)

BBit(X, i) == (X[(i \div 26) + 1] \div 2^(i % 26)) % 2

\* number of significant bits of a limb
LimbLen(n) == Cardinality({i \in 0..29 : 2^i <= n})

\* number of significant bits
BLen(X) ==
    IF X[3] > 0 THEN 52 + LimbLen(X[3])
    ELSE IF X[2] > 0 THEN 26 + LimbLen(X[2])
    ELSE LimbLen(X[1])

\* X * 2^j and X \div 2^j for j < 26
BShlBits(X, j) ==
    LET p == 2^j
        q == 2^(26 - j)
    IN  <<(X[1] % q) * p, (X[2] % q) * p + (X[1] \div q), X[3] * p + (X[2] \div q)>>

BShrBits(X, j) ==
    LET p == 2^j
        q == 2^(26 - j)
    IN  <<(X[1] \div p) + (X[2] % p) * q, (X[2] \div p) + (X[3] % p) * q, X[3] \div p>>

\* X * 2^k
BShl(X, k) ==
    IF k >= 52 THEN BShlBits(<<0, 0, X[1]>>, k - 52)
    ELSE IF k >= 26 THEN BShlBits(<<0, X[1], X[2]>>, k - 26)
    ELSE BShlBits(X, k)

\* X \div 2^k
BShr(X, k) ==
    IF k >= 78 THEN BZero
    ELSE IF k >= 52 THEN BShrBits(<<X[3], 0, 0>>, k - 52)
    ELSE IF k >= 26 THEN BShrBits(<<X[2], X[3], 0>>, k - 26)
    ELSE BShrBits(X, k)

\* F(x) with x evaluated before the call, once, as JavaScript evaluates an
\* argument
Strict(F(_), x) == CHOOSE r \in {F(v) : v \in {x}} : TRUE

\* the binary long division of N by D from bit i down: quotient Q, remainder R
RECURSIVE BDivFrom(_, _, _, _, _)
BDivFrom(N, D, i, Q, R) ==
    IF i < 0 THEN [q |-> Q, r |-> R]
    ELSE LET R2 == BAdd(BDbl(R), BInt(BBit(N, i)))
             ge == BLe(D, R2)
             Q3 == BAdd(BDbl(Q), BInt(IF ge THEN 1 ELSE 0))
             R3 == IF ge THEN BSub(R2, D) ELSE R2
         IN  IF Q3[1] >= 0 /\ R3[1] >= 0
             THEN BDivFrom(N, D, i - 1, Q3, R3)
             ELSE [q |-> Q3, r |-> R3]

BDivMod(N, D) == BDivFrom(N, D, BLen(N) - 1, BZero, BZero)

\* the division of N by a small d (below 2^18), by digits of 13 bits from the
\* top: quotient q, remainder r
BDivSmall(N, d) ==
    LET H == 2^13
        c5 == N[3] \div H
        c4 == (c5 % d) * H + (N[3] % H)
        c3 == (c4 % d) * H + (N[2] \div H)
        c2 == (c3 % d) * H + (N[2] % H)
        c1 == (c2 % d) * H + (N[1] \div H)
        c0 == (c1 % d) * H + (N[1] % H)
    IN  [q |-> <<(c1 \div d) * H + (c0 \div d),
                 (c3 \div d) * H + (c2 \div d),
                 (c5 \div d) * H + (c4 \div d)>>,
         r |-> BInt(c0 % d)]

\* the integer X with its low k bits rounded away, ties to even; sticky tells
\* that the exact value lies above X
RoundBits(X, k, sticky) ==
    IF k <= 0 THEN X
    ELSE LET M == BShr(X, k)
             low == BSub(X, BShl(M, k))
             half == BShl(BInt(1), k - 1)
             up == \/ BLt(half, low)
                   \/ low = half /\ (sticky \/ M[1] % 2 = 1)
         IN  BShl(IF up THEN BAdd(M, BInt(1)) ELSE M, k)

\* the double nearest to the integer X
FlRound(X) == RoundBits(X, BLen(X) - 53, FALSE)

\* the double x - y of two doubles holding integers, x >= y
FlSub(X, Y) == FlRound(BSub(X, Y))

\* whether the next k quotient bits of R / D are all ones and, with them, the
\* quotient rounds up to the next integer (ties to even: the last bit kept is
\* odd, the one bit of the integer part when k = 0)
RECURSIVE FracRoundsUp(_, _, _, _)
FracRoundsUp(R, D, k, odd) ==
    IF k = 0
    THEN \/ BLt(D, BDbl(R))
         \/ BDbl(R) = D /\ odd
    ELSE LET R2 == BDbl(R)
         IN  /\ BLe(D, R2)
             /\ FracRoundsUp(BSub(R2, D), D, k - 1, TRUE)

\* Math.floor(x / y) for doubles x, y holding integers, y > 0, x / y >= 1: the
\* quotient is rounded to a double first, then floored
FlDivFloor(N, D) ==
    LET d == BDivMod(N, D)
        len == BLen(d.q)
    IN  IF len > 53
        THEN RoundBits(d.q, len - 53, d.r # BZero)
        ELSE IF FracRoundsUp(d.r, D, 53 - len, d.q[1] % 2 = 1)
             THEN BAdd(d.q, BInt(1))
             ELSE d.q

(***************************************************************************)
(* Hex strings are sequences of digits 0..15.                              *)
(***************************************************************************)
\* String.prototype.substring(start, end): negative bounds count as 0, bounds
\* beyond the length as the length
substring(str, start, end) ==
    LET lo == IF start < 0 THEN 0 ELSE IF start > Len(str) THEN Len(str) ELSE start
        hi == IF end < 0 THEN 0 ELSE IF end > Len(str) THEN Len(str) ELSE end
    IN  SubSeq(str, lo + 1, hi)

\* String.prototype.slice(0, end) for end >= 0
slice(str, end) == SubSeq(str, 1, IF end > Len(str) THEN Len(str) ELSE end)

\* parseInt(str, 16) of at most four hex digits
RECURSIVE parseInt16(_)
parseInt16(str) ==
    IF str = <<>> THEN 0
    ELSE 16 * parseInt16(SubSeq(str, 1, Len(str) - 1)) + str[Len(str)]

\* parseInt(str, 16) of at most thirteen hex digits, which a double holds
\* exactly: the digits from index i on, after the value acc of those before
RECURSIVE parseIntFrom(_, _, _)
parseIntFrom(str, i, acc) ==
    IF i > Len(str) THEN acc
    ELSE LET nx == BAdd(BShl(acc, 4), BInt(str[i]))
         IN  IF nx[1] >= 0 THEN parseIntFrom(str, i + 1, nx) ELSE nx

parseInt(str) == parseIntFrom(str, 1, BZero)

(***************************************************************************)
(* rollIsHashDivisible and rollGetOutcome.                                 *)
(***************************************************************************)
\* val << 16: the low 32 bits of the shifted value, as a signed integer
Shl16(val) == (val % 2^15) * 2^16 + ((-(2^30)) * ((val \div 2^15) % 2)) * 2

\* a % m of JavaScript: the sign of the dividend
Rem(a, m) == IF a >= 0 THEN a % m ELSE -((-a) % m)

\* the loop of rollIsHashDivisible from index i with accumulator val
RECURSIVE HashFold(_, _, _, _)
HashFold(str, m, i, val) ==
    IF i < Len(str)
    THEN HashFold(str, m, i + 4,
                  Rem(Shl16(val) + parseInt16(substring(str, i, i + 4)), m))
    ELSE val

\* rollIsHashDivisible leaving out the leading partial chunk
rollIsHashDivisibleSkipLead(str, m) == HashFold(str, m, Len(str) % 4, 0) = 0

rollIsHashDivisible(str, m) ==
    LET o == Len(str) % 4
    IN  HashFold(str, m, IF o > 0 THEN o - 4 ELSE 0, 0) = 0

\* the house edge in percent: 0.05 * 100
HouseEdge == 5
\* parseInt(100 / (0.05 * 100))
mod == 100 \div HouseEdge

\* Math.pow(2, 52)
e == BShl(BInt(1), 52)
Hundred == BInt(100)
HundredE == BShl(Hundred, 52)

\* rollGetOutcome without its house-edge branch
rollGetOutcomeNoEdge(str) ==
    LET h == parseInt(slice(str, 52 \div 4))
    IN  FlDivFloor(FlSub(HundredE, h), FlSub(e, h))

\* rollGetOutcome dividing by e instead of e - h
rollGetOutcomeByE(str) ==
    IF rollIsHashDivisible(str, mod)
    THEN Hundred
    ELSE LET h == parseInt(slice(str, 52 \div 4))
         IN  FlDivFloor(FlSub(HundredE, h), e)

rollGetOutcome(str) ==
    IF rollIsHashDivisible(str, mod)
    THEN Hundred
    ELSE LET h == parseInt(slice(str, 52 \div 4))
         IN  FlDivFloor(FlSub(HundredE, h), FlSub(e, h))

(***************************************************************************)
(* JavaScript values of a bet's fields.  A number counts halves, so that   *)
(* Math.floor has a fraction to cut: Num(3) is 1.5.                        *)
(***************************************************************************)
Undefined == [t |-> "undefined"]
Null == [t |-> "null"]
\* NaN, or a string that is no number
NotANumber == [t |-> "NaN"]
Num(v2) == [t |-> "number", v2 |-> v2]

\* isNaN(x): null counts as 0
isNaN(x) == x.t \in {"undefined", "NaN"}

\* Math.floor(x) of a number, or of null (0)
Floor(x) == IF x.t = "null" THEN 0 ELSE x.v2 \div 2

BToInt(X) == X[1] + X[2] * B

\* X * a for a small a >= 0: acc + X * a by doubling X
RECURSIVE BMulFrom(_, _, _)
BMulFrom(X, a, acc) ==
    IF a = 0 THEN acc
    ELSE Strict(LAMBDA p : BMulFrom(p[1], a \div 2, p[2]),
                <<BDbl(X), IF a % 2 = 1 THEN BAdd(acc, X) ELSE acc>>)

BMulSmall(X, a) == BMulFrom(X, a, BZero)

\* the double p / q of two positive integers below 2^18, as n * 2^(-k)
FlQuot(p, q) ==
    LET k == 53 + BLen(BInt(q)) - BLen(BInt(p))
    IN  Strict(LAMBDA d :
            [n |-> IF BLen(d.q) > 53
                   THEN RoundBits(d.q, BLen(d.q) - 53, d.r # BZero)
                   ELSE IF \/ BLt(BInt(q), BDbl(d.r))
                           \/ BDbl(d.r) = BInt(q) /\ d.q[1] % 2 = 1
                        THEN BAdd(d.q, BInt(1))
                        ELSE d.q,
             k |-> k],
            BDivSmall(BShl(BInt(p), k), q))

\* Math.floor(amount * (multiplier / 100) + winnings) in doubles, for a positive
\* amount and multiplier (in halves) and an integer winnings >= 0
FloorWinnings(amount2, multiplier2, winnings) ==
    Strict(LAMBDA x :
        Strict(LAMBDA y :
            Strict(LAMBDA z : BToInt(BShr(z, x.k + 1)),
                   FlRound(BAdd(y, BShl(BInt(winnings), x.k + 1)))),
            FlRound(BMulSmall(x.n, amount2))),
        FlQuot(multiplier2, 200))

(***************************************************************************)
(* The bet validators.  Each returns the error it throws, or OK.           *)
(***************************************************************************)
OK == "ok"
\* the ceilings configured during bet admission:
\* Math.floor(process.env.ROLL_MAX_AMOUNT * 1000)
MaxAmount == 30
\* Math.floor(process.env.ROLL_MAX_PROFIT * 1000)
MaxProfit == 40

\* rollCheckSendBetData with the multiplier test at < 100
rollCheckSendBetDataLax(data) ==
    IF data \in {Undefined, Null}
    THEN "Something went wrong."
    ELSE IF \/ data.amount \in {Undefined, Null}
            \/ isNaN(data.amount)
            \/ Floor(data.amount) <= 0
    THEN "invalid bet amount"
    ELSE IF \/ data.multiplier \in {Undefined, Null}
            \/ isNaN(data.multiplier)
            \/ Floor(data.multiplier) < 100
    THEN "invalid bet multiplier"
    ELSE IF Floor(data.amount) < minAmount
    THEN "min amount"
    ELSE OK

rollCheckSendBetData(data) ==
    IF data \in {Undefined, Null}
    THEN "Something went wrong."
    ELSE IF \/ data.amount \in {Undefined, Null}
            \/ isNaN(data.amount)
            \/ Floor(data.amount) <= 0
    THEN "invalid bet amount"
    ELSE IF \/ data.multiplier \in {Undefined, Null}
            \/ isNaN(data.multiplier)
            \/ Floor(data.multiplier) <= 100
    THEN "invalid bet multiplier"
    ELSE IF Floor(data.amount) < minAmount
    THEN "min amount"
    ELSE OK

\* rollCheckSendBetUser without the two per-game ceilings
rollCheckSendBetUserNoCeiling(data, user, userStats) ==
    IF data = Undefined \/ user = Undefined
    THEN "Something went wrong."
    ELSE IF user.balance < Floor(data.amount)
    THEN "not enough balance"
    ELSE OK

\* rollCheckSendBetUser with the balance check on what the earlier bets of the
\* game leave of the balance
rollCheckSendBetUserRemaining(data, user, userStats) ==
    IF data = Undefined \/ user = Undefined
    THEN "Something went wrong."
    ELSE IF user.balance - userStats.bet < Floor(data.amount)
    THEN "not enough balance"
    ELSE IF (data.amount.v2 + 2 * userStats.bet) \div 2 > maxAmount
    THEN "max amount"
    ELSE IF FloorWinnings(data.amount.v2, data.multiplier.v2, userStats.winnings) > maxProfit
    THEN "max profit"
    ELSE OK

\* rollCheckSendBetUser refusing a total equal to the maximum amount
rollCheckSendBetUserAtCeiling(data, user, userStats) ==
    IF data = Undefined \/ user = Undefined
    THEN "Something went wrong."
    ELSE IF user.balance < Floor(data.amount)
    THEN "not enough balance"
    ELSE IF (data.amount.v2 + 2 * userStats.bet) \div 2 >= maxAmount
    THEN "max amount"
    ELSE IF FloorWinnings(data.amount.v2, data.multiplier.v2, userStats.winnings) > maxProfit
    THEN "max profit"
    ELSE OK

rollCheckSendBetUser(data, user, userStats) ==
    IF data = Undefined \/ user = Undefined
    THEN "Something went wrong."
    ELSE IF user.balance < Floor(data.amount)
    THEN "not enough balance"
    ELSE IF (data.amount.v2 + 2 * userStats.bet) \div 2 > maxAmount
    THEN "max amount"
    ELSE IF FloorWinnings(data.amount.v2, data.multiplier.v2, userStats.winnings) > maxProfit
    THEN "max profit"
    ELSE OK

\* rollCheckSendBetGame letting a rolling game pass
rollCheckSendBetGameRolling(rollGame) ==
    IF rollGame \in {Undefined, Null}
    THEN "Something went wrong."
    ELSE IF rollGame.state # "created" /\ rollGame.state # "rolling"
    THEN "wait for the next round"
    ELSE OK

rollCheckSendBetGame(rollGame) ==
    IF rollGame \in {Undefined, Null}
    THEN "Something went wrong."
    ELSE IF rollGame.state # "created"
    THEN "wait for the next round"
    ELSE OK

\* rollGetUserGameStats: the loop over rollBets from index i with stats so far
RECURSIVE UserGameStatsFrom(_, _, _, _)
UserGameStatsFrom(user, rollBets, i, stats) ==
    IF i > Len(rollBets) THEN stats
    ELSE LET bet == rollBets[i]
         IN  Strict(LAMBDA nx : UserGameStatsFrom(user, rollBets, i + 1, nx),
                    IF bet.user = user._id
                    THEN [bet |-> (2 * stats.bet + bet.amount.v2) \div 2,
                          winnings |-> FloorWinnings(bet.amount.v2, bet.multiplier.v2,
                                                     stats.winnings)]
                    ELSE stats)

rollGetUserGameStats(user, rollBets) ==
    UserGameStatsFrom(user, rollBets, 1, [bet |-> 0, winnings |-> 0])

(***************************************************************************)
(* Store queries.                                                          *)
(***************************************************************************)
SeedIds == 1..Len(seeds)
GameIds == 1..Len(games)

Max(S) == CHOOSE x \in S : \A y \in S : y <= x

\* RollSeed.findOne({ state: 'created' }).sort({ _id: -1 })
FindCreatedSeed ==
    LET S == {s \in SeedIds : seeds[s] = "created"}
    IN  IF S = {} THEN NoSeed ELSE Max(S)

\* the document RollGame.create({ fair: { seed }, state: 'created' }) stores
NewGame(seed) == [state |-> "created", fair |-> [seed |-> seed]]

(***************************************************************************)
(* rollSanitizeGame: a copy of the game without outcome and fair unless    *)
(* the game is rolling or completed.                                       *)
(***************************************************************************)
Without(game, fields) == [f \in (DOMAIN game) \ fields |-> game[f]]

rollSanitizeGameKeepsFair(game) ==
    IF game.state # "rolling" /\ game.state # "completed"
    THEN Without(game, {"outcome"})
    ELSE game

rollSanitizeGame(game) ==
    IF game.state # "rolling" /\ game.state # "completed"
    THEN Without(game, {"outcome", "fair"})
    ELSE game

(***************************************************************************)
(* rollSanitizeBets and rollSanitizeBet.  A JavaScript object is a         *)
(* function from its field names to values; a string is kept by its name.  *)
(***************************************************************************)
Obj(o) == [t |-> "object", o |-> o]
Str(x) == [t |-> "string", s |-> x]
Arr(a) == [t |-> "array", a |-> a]
\* the TypeError of reading a property of undefined or null
Thrown == [t |-> "TypeError"]

\* x.f: undefined when x has no such field
Get(x, f) == IF x.t = "object" /\ f \in DOMAIN x.o THEN x.o[f] ELSE Undefined

\* reading a property of x throws
CannotRead(x) == x.t \in {"undefined", "null"}

\* JSON.parse(JSON.stringify(x)): the fields holding undefined are dropped, at
\* every depth
RECURSIVE JsonCopy(_)
JsonCopy(x) ==
    IF x.t = "object"
    THEN Obj([f \in {g \in DOMAIN x.o : x.o[g].t # "undefined"} |-> JsonCopy(x.o[f])])
    ELSE x

\* the fields of the user object both sanitizers build
PublicFields ==
    {"_id", "roblox", "username", "avatar", "rank", "level", "rakeback", "stats", "createdAt"}

PublicUser(user) ==
    Obj([f \in PublicFields |->
            IF f = "rakeback" THEN Get(Get(user, "rakeback"), "name") ELSE Get(user, f)])

\* building the user object of b throws: b, b.user or b.user.rakeback is
\* undefined or null
UserThrows(b) ==
    \/ CannotRead(b)
    \/ CannotRead(Get(b, "user"))
    \/ CannotRead(Get(Get(b, "user"), "rakeback"))

\* { ...b, user: { ... } }
WithPublicUser(b) ==
    Obj([f \in DOMAIN b.o \cup {"user"} |->
            IF f = "user" THEN PublicUser(b.o.user) ELSE b.o[f]])

\* rollSanitizeBets keeping the user of each bet whole
rollSanitizeBetsWholeUser(betList) ==
    IF \E i \in DOMAIN betList : UserThrows(betList[i])
    THEN Thrown
    ELSE Arr([i \in DOMAIN betList |-> betList[i]])

rollSanitizeBets(betList) ==
    IF \E i \in DOMAIN betList : UserThrows(betList[i])
    THEN Thrown
    ELSE Arr([i \in DOMAIN betList |-> WithPublicUser(betList[i])])

rollSanitizeBet(b) ==
    IF b.t = "undefined" \/ UserThrows(JsonCopy(b))
    THEN Thrown
    ELSE WithPublicUser(JsonCopy(b))

(***************************************************************************)
(* rollGenerateGame, one action per await.                                 *)
(***************************************************************************)
\* a caller enters rollGenerateGame
Call(c) ==
    /\ pc[c] = "idle"
    /\ calls < MaxCalls
    /\ calls' = calls + 1
    /\ pc' = [pc EXCEPT ![c] = "findOne"]
    /\ UNCHANGED <<laterVars, outcomeVars, betVars, formatVars, seeds, games, seedDatabase, gameWrite, seedWrite, created, view>>

\* await RollSeed.findOne(...): the newest 'created' seed or null; the read may throw
FindOne(c) ==
    /\ pc[c] = "findOne"
    /\ \E ok \in BOOLEAN :
        IF ok
        THEN /\ seedDatabase' = [seedDatabase EXCEPT ![c] = FindCreatedSeed]
             /\ pc' = [pc EXCEPT ![c] =
                          IF FindCreatedSeed = NoSeed THEN "createSeed" ELSE "write"]
        ELSE /\ pc' = [pc EXCEPT ![c] = "rejected"]
             /\ UNCHANGED seedDatabase
    /\ UNCHANGED <<laterVars, outcomeVars, betVars, formatVars, seeds, games, gameWrite, seedWrite, created, calls, view>>

\* await RollSeed.create(newSeed): a new seed in state 'created'; the write may throw
CreateSeed(c) ==
    /\ pc[c] = "createSeed"
    /\ \E ok \in BOOLEAN :
        IF ok
        THEN /\ seeds' = Append(seeds, "created")
             /\ seedDatabase' = [seedDatabase EXCEPT ![c] = Len(seeds) + 1]
             /\ pc' = [pc EXCEPT ![c] = "write"]
        ELSE /\ pc' = [pc EXCEPT ![c] = "rejected"]
             /\ UNCHANGED <<seeds, seedDatabase>>
    /\ UNCHANGED <<laterVars, outcomeVars, betVars, formatVars, games, gameWrite, seedWrite, created, calls, view>>

\* Promise.all([RollGame.create(...), RollSeed.findByIdAndUpdate(...)]): both
\* writes are issued; each settles on its own
StartWrites(c) ==
    /\ pc[c] = "write"
    /\ gameWrite[c] = "none" /\ seedWrite[c] = "none"
    /\ gameWrite' = [gameWrite EXCEPT ![c] = "pending"]
    /\ seedWrite' = [seedWrite EXCEPT ![c] = "pending"]
    /\ pc' = [pc EXCEPT ![c] = "all"]
    /\ UNCHANGED <<laterVars, outcomeVars, betVars, formatVars, seeds, games, seedDatabase, created, calls, view>>

\* RollGame.create({ fair: { seed: seedDatabase._id }, state: 'created' })
GameCreate(c) ==
    /\ gameWrite[c] = "pending"
    /\ \E ok \in BOOLEAN :
        IF ok
        THEN /\ games' = Append(games, NewGame(seedDatabase[c]))
             /\ created' = [created EXCEPT ![c] = Len(games) + 1]
             /\ gameWrite' = [gameWrite EXCEPT ![c] = "ok"]
        ELSE /\ gameWrite' = [gameWrite EXCEPT ![c] = "fail"]
             /\ UNCHANGED <<games, created>>
    /\ UNCHANGED <<laterVars, outcomeVars, betVars, formatVars, seeds, pc, seedDatabase, seedWrite, calls, view>>

\* RollSeed.findByIdAndUpdate(seedDatabase._id, { state: 'completed' }, {})
SeedUpdate(c) ==
    /\ seedWrite[c] = "pending"
    /\ \E ok \in BOOLEAN :
        IF ok
        THEN /\ seeds' = [seeds EXCEPT ![seedDatabase[c]] = "completed"]
             /\ seedWrite' = [seedWrite EXCEPT ![c] = "ok"]
        ELSE /\ seedWrite' = [seedWrite EXCEPT ![c] = "fail"]
             /\ UNCHANGED seeds
    /\ UNCHANGED <<laterVars, outcomeVars, betVars, formatVars, games, pc, seedDatabase, gameWrite, created, calls, view>>

\* Promise.all rejects as soon as one write fails: catch (err) { reject(err) }
RejectAll(c) ==
    /\ pc[c] = "all"
    /\ gameWrite[c] = "fail" \/ seedWrite[c] = "fail"
    /\ pc' = [pc EXCEPT ![c] = "rejected"]
    /\ UNCHANGED <<laterVars, outcomeVars, betVars, formatVars, seeds, games, seedDatabase, gameWrite, seedWrite, created, calls, view>>

\* both writes fulfilled: populate 'fair.seed' (a read, may throw), toObject, resolve
Populate(c) ==
    /\ pc[c] = "all"
    /\ gameWrite[c] = "ok" /\ seedWrite[c] = "ok"
    /\ \E ok \in BOOLEAN :
        pc' = [pc EXCEPT ![c] = IF ok THEN "resolved" ELSE "rejected"]
    /\ UNCHANGED <<laterVars, outcomeVars, betVars, formatVars, seeds, games, seedDatabase, gameWrite, seedWrite, created, calls, view>>

\* the promise is settled and no write of it is in flight: the caller may call again
Return(c) ==
    /\ pc[c] \in {"resolved", "rejected"}
    /\ gameWrite[c] # "pending" /\ seedWrite[c] # "pending"
    /\ pc' = [pc EXCEPT ![c] = "idle"]
    /\ seedDatabase' = [seedDatabase EXCEPT ![c] = NoSeed]
    /\ gameWrite' = [gameWrite EXCEPT ![c] = "none"]
    /\ seedWrite' = [seedWrite EXCEPT ![c] = "none"]
    /\ created' = [created EXCEPT ![c] = NoGame]
    /\ UNCHANGED <<laterVars, outcomeVars, betVars, formatVars, seeds, games, calls, view>>

rollGenerateGame(c) ==
    \/ Call(c)
    \/ FindOne(c)
    \/ CreateSeed(c)
    \/ StartWrites(c)
    \/ GameCreate(c)
    \/ SeedUpdate(c)
    \/ RejectAll(c)
    \/ Populate(c)
    \/ Return(c)

(***************************************************************************)
(* The round scheduler that drives a game created -> rolling -> completed  *)
(* and stores the outcome when the game starts rolling.                    *)
(***************************************************************************)
Outcomes == {100, 199}

StartRolling(g) ==
    /\ games[g].state = "created"
    /\ \E o \in Outcomes :
        games' = [games EXCEPT ![g] =
                     [state |-> "rolling", fair |-> games[g].fair, outcome |-> o]]
    /\ UNCHANGED <<laterVars, outcomeVars, betVars, formatVars, seeds, pc, seedDatabase, gameWrite, seedWrite, created, calls, view>>

Complete(g) ==
    /\ games[g].state = "rolling"
    /\ games' = [games EXCEPT ![g] =
                    [state |-> "completed", fair |-> games[g].fair,
                     outcome |-> games[g].outcome]]
    /\ UNCHANGED <<laterVars, outcomeVars, betVars, formatVars, seeds, pc, seedDatabase, gameWrite, seedWrite, created, calls, view>>

\* a game of the store is sanitized and sent to the clients
SendGame(g) ==
    /\ view' = [game |-> g, state |-> games[g].state, data |-> rollSanitizeGame(games[g])]
    /\ UNCHANGED <<laterVars, outcomeVars, betVars, formatVars, seeds, games, pc, seedDatabase, gameWrite, seedWrite, created, calls>>

RoundInit ==
    /\ seeds = <<>>
    /\ games = <<>>
    /\ pc = [c \in Callers |-> "idle"]
    /\ seedDatabase = [c \in Callers |-> NoSeed]
    /\ gameWrite = [c \in Callers |-> "none"]
    /\ seedWrite = [c \in Callers |-> "none"]
    /\ created = [c \in Callers |-> NoGame]
    /\ calls = 0
    /\ view = NoView

\* the hashes given to rollGetOutcome: a run of one digit, then a free tail
HeadDigits == {0, 1, 8, 15}
TailDigits == {0, 4, 11, 15}
Run(d, n) == [i \in 1..n |-> d]
Tails == UNION {[1..k -> TailDigits] : k \in 0..MaxTail}
HashInputs == {Run(d, n) \o t : d \in HeadDigits, n \in 0..MaxRun, t \in Tails}

OutcomeIdle ==
    /\ combined = <<>>
    /\ outcome = NoOutcome

\* the users that bet
Users == {"u1", "u2"}
Balance == [u \in Users |-> IF u = "u1" THEN 30 ELSE 5]
User(u) == [_id |-> u, balance |-> Balance[u]]

\* the admission requests in flight and the user of each
Requests == {"r1", "r2"}
RequestUser == [r \in Requests |-> "u1"]
NoRequest == "none"
NoData == [t |-> "none"]
NoVerdict == "none"

\* the configured minimum bets
MinAmounts == {0, 1, 2}

\* the bet data a client may send: -1, 0, 0.5, 1, 5, 25 and 99, 100, 100.5, 101,
\* 116, 300 among the numbers
AmountValues ==
    {Undefined, Null, NotANumber} \cup {Num(v) : v \in {-2, 0, 1, 2, 10, 50}}
MultiplierValues ==
    {Undefined, Null, NotANumber} \cup {Num(v) : v \in {198, 200, 201, 202, 232, 600}}
BetDatas ==
    {Undefined, Null} \cup [amount : AmountValues, multiplier : MultiplierValues]

BetIdle ==
    /\ minAmount = 2
    /\ bets = <<[user |-> "u2", amount |-> Num(10), multiplier |-> Num(600)]>>
    /\ lock = NoRequest
    /\ apc = [r \in Requests |-> "idle"]
    /\ adata = [r \in Requests |-> NoData]
    /\ aresult = [r \in Requests |-> NoVerdict]
    /\ admits = 0

FormatIdle ==
    /\ betData = NoData
    /\ verdict = NoVerdict

ConfigIdle ==
    /\ maxAmount = MaxAmount
    /\ maxProfit = MaxProfit

NoBalance == 0

UserIdle ==
    /\ balance = NoBalance
    /\ userVerdict = NoVerdict

NoBet == [t |-> "none"]
NoOutput == [t |-> "none"]

SanitizeIdle ==
    /\ betGiven = NoBet
    /\ sanitizedBets = NoOutput
    /\ sanitizedBet = NoOutput

\* the two socket handlers
Handlers == {"sendCreditDeposit", "checkCreditDeposit"}

\* a handler before its event arrives: where it stands, whether callback is a
\* function and socket.decoded is set, whether socketCheckAntiSpam has
\* succeeded, the step that failed, the calls of socketRemoveAntiSpam and the
\* calls of callback the handler made
HandlerOff ==
    [pc |-> "off", callback |-> FALSE, decoded |-> FALSE, antiSpam |-> FALSE,
     failed |-> "none", removed |-> 0, callbacks |-> <<>>]

SocketIdle == handlers = [h \in Handlers |-> HandlerOff]

LaterIdle == ConfigIdle /\ UserIdle /\ SanitizeIdle /\ SocketIdle

Init == RoundInit /\ OutcomeIdle /\ BetIdle /\ FormatIdle /\ LaterIdle

Next ==
    \/ \E c \in Callers : rollGenerateGame(c)
    \/ \E g \in GameIds : StartRolling(g)
    \/ \E g \in GameIds : Complete(g)
    \/ \E g \in GameIds : SendGame(g)

vars == <<roundVars, outcomeVars, betVars, formatVars, laterVars>>

Spec == Init /\ [][Next]_vars

(***************************************************************************)
(* The outcome calculator on its own: a hash is drawn, rollGetOutcome is   *)
(* applied to it.                                                          *)
(***************************************************************************)
OutcomeInit ==
    /\ RoundInit /\ BetIdle /\ FormatIdle /\ LaterIdle
    /\ combined \in HashInputs
    /\ outcome = NoOutcome

GetOutcome ==
    /\ outcome = NoOutcome
    /\ outcome' = rollGetOutcome(combined)
    /\ UNCHANGED <<laterVars, roundVars, betVars, formatVars, combined>>

OutcomeNext == GetOutcome

SpecOutcome == OutcomeInit /\ [][OutcomeNext]_vars

(***************************************************************************)
(* The format check on its own: bet data and a configured minimum are      *)
(* drawn, rollCheckSendBetData is applied.                                 *)
(***************************************************************************)
FormatInit ==
    /\ RoundInit /\ OutcomeIdle /\ LaterIdle
    /\ minAmount \in MinAmounts
    /\ bets = <<>>
    /\ lock = NoRequest
    /\ apc = [r \in Requests |-> "idle"]
    /\ adata = [r \in Requests |-> NoData]
    /\ aresult = [r \in Requests |-> NoVerdict]
    /\ admits = 0
    /\ betData \in BetDatas
    /\ verdict = NoVerdict

CheckData ==
    /\ verdict = NoVerdict
    /\ verdict' = rollCheckSendBetData(betData)
    /\ UNCHANGED <<laterVars, roundVars, outcomeVars, betVars, betData>>

FormatNext == CheckData

SpecFormat == FormatInit /\ [][FormatNext]_vars

(***************************************************************************)
(* Bet admission: the four checks in sequence, then the write, the stats   *)
(* read, the user check and the write under the round's lock.              *)
(***************************************************************************)
\* the round bets are admitted to: the last game of the store, null when the
\* store holds none
CurrentGame == IF games = <<>> THEN Null ELSE games[Len(games)]

\* a request arrives with its data; rollCheckSendBetData runs at once
AdmitBegin(r, d) ==
    /\ apc[r] = "idle"
    /\ admits < MaxAdmits
    /\ admits' = admits + 1
    /\ IF rollCheckSendBetData(d) = OK
       THEN /\ adata' = [adata EXCEPT ![r] = d]
            /\ apc' = [apc EXCEPT ![r] = "wait"]
            /\ aresult' = [aresult EXCEPT ![r] = NoVerdict]
       ELSE /\ aresult' = [aresult EXCEPT ![r] = rollCheckSendBetData(d)]
            /\ UNCHANGED <<adata, apc>>
    /\ UNCHANGED <<laterVars, roundVars, outcomeVars, formatVars, minAmount, bets, lock>>

\* the request takes the round's lock
AdmitLock(r) ==
    /\ apc[r] = "wait"
    /\ lock = NoRequest
    /\ lock' = r
    /\ apc' = [apc EXCEPT ![r] = "check"]
    /\ UNCHANGED <<laterVars, roundVars, outcomeVars, formatVars, minAmount, bets, adata, aresult, admits>>

\* rollGetUserGameStats over the stored bets, rollCheckSendBetUser, then
\* rollCheckSendBetGame; a failed check ends the admission with nothing stored
AdmitCheck(r) ==
    /\ apc[r] = "check"
    /\ \E userStats \in {rollGetUserGameStats(User(RequestUser[r]), bets)} :
       \E byUser \in {rollCheckSendBetUser(adata[r], User(RequestUser[r]), userStats)},
          byGame \in {rollCheckSendBetGame(CurrentGame)} :
           IF byUser = OK /\ byGame = OK
           THEN /\ apc' = [apc EXCEPT ![r] = "persist"]
                /\ UNCHANGED <<lock, adata, aresult>>
           ELSE /\ apc' = [apc EXCEPT ![r] = "idle"]
                /\ aresult' = [aresult EXCEPT ![r] = IF byUser # OK THEN byUser ELSE byGame]
                /\ adata' = [adata EXCEPT ![r] = NoData]
                /\ lock' = NoRequest
    /\ UNCHANGED <<laterVars, roundVars, outcomeVars, formatVars, minAmount, bets, admits>>

\* the bet is stored with its integer amount and multiplier; the lock is released
AdmitPersist(r) ==
    /\ apc[r] = "persist"
    /\ bets' = Append(bets, [user |-> RequestUser[r],
                             amount |-> Num(2 * Floor(adata[r].amount)),
                             multiplier |-> Num(2 * Floor(adata[r].multiplier))])
    /\ lock' = NoRequest
    /\ apc' = [apc EXCEPT ![r] = "idle"]
    /\ aresult' = [aresult EXCEPT ![r] = OK]
    /\ adata' = [adata EXCEPT ![r] = NoData]
    /\ UNCHANGED <<laterVars, roundVars, outcomeVars, formatVars, minAmount, admits>>

BetInit ==
    /\ \/ seeds = <<"completed">> /\ games = <<NewGame(1)>>
       \/ seeds = <<>> /\ games = <<>>
    /\ pc = [c \in Callers |-> "idle"]
    /\ seedDatabase = [c \in Callers |-> NoSeed]
    /\ gameWrite = [c \in Callers |-> "none"]
    /\ seedWrite = [c \in Callers |-> "none"]
    /\ created = [c \in Callers |-> NoGame]
    /\ calls = 0
    /\ view = NoView
    /\ OutcomeIdle /\ BetIdle /\ FormatIdle /\ LaterIdle

BetNext ==
    \/ \E r \in Requests, d \in BetDatas : AdmitBegin(r, d)
    \/ \E r \in Requests : AdmitLock(r)
    \/ \E r \in Requests : AdmitCheck(r)
    \/ \E r \in Requests : AdmitPersist(r)
    \/ \E g \in GameIds : StartRolling(g)
    \/ \E g \in GameIds : Complete(g)

SpecBets == BetInit /\ [][BetNext]_vars

(***************************************************************************)
(* The user check on its own: a balance, the bets of the round, bet data   *)
(* and the two ceilings are drawn; rollGetUserGameStats and                *)
(* rollCheckSendBetUser are applied.                                       *)
(***************************************************************************)
StoredBet(u, amount, multiplier) ==
    [user |-> u, amount |-> Num(2 * amount), multiplier |-> Num(2 * multiplier)]

UserBalances == {100, 1000}
RoundBets ==
    { <<>>,
      <<StoredBet("u1", 900, 101)>>,
      <<StoredBet("u1", 800, 101)>>,
      <<StoredBet("u1", 500, 101), StoredBet("u2", 70, 300), StoredBet("u1", 300, 101)>>,
      <<StoredBet("u1", 25, 116)>> }
\* amounts 25, 200, 200.5, 300, 1100 and multipliers 101, 116, 300
UserDatas ==
    {Undefined} \cup [amount : {Num(v) : v \in {50, 400, 401, 600, 2200}},
                      multiplier : {Num(v) : v \in {202, 232, 600}}]
MaxAmountsGiven == {1000, 2000}
MaxProfitsGiven == {28, 57, 5000}

\* the user of the request
UserGiven == [_id |-> "u1", balance |-> balance]

UserInit ==
    /\ RoundInit /\ OutcomeIdle /\ SanitizeIdle /\ SocketIdle
    /\ minAmount = 0
    /\ bets \in RoundBets
    /\ lock = NoRequest
    /\ apc = [r \in Requests |-> "idle"]
    /\ adata = [r \in Requests |-> NoData]
    /\ aresult = [r \in Requests |-> NoVerdict]
    /\ admits = 0
    /\ betData \in UserDatas
    /\ verdict = NoVerdict
    /\ maxAmount \in MaxAmountsGiven
    /\ maxProfit \in MaxProfitsGiven
    /\ balance \in UserBalances
    /\ userVerdict = NoVerdict

CheckUser ==
    /\ userVerdict = NoVerdict
    /\ userVerdict' = rollCheckSendBetUser(betData, UserGiven,
                                           rollGetUserGameStats(UserGiven, bets))
    /\ UNCHANGED <<roundVars, outcomeVars, betVars, formatVars, configVars, balance,
                   sanitizeVars, socketVars>>

UserNext == CheckUser

SpecUser == UserInit /\ [][UserNext]_vars

(***************************************************************************)
(* The bet sanitizers on their own: a bet is drawn, rollSanitizeBets is    *)
(* applied to the list holding it and rollSanitizeBet to the bet.          *)
(***************************************************************************)
Rakeback == Obj([name |-> Str("gold"), rate |-> Str("rate")])
StatsGiven ==
    {Obj([bet |-> Str("bet")]), Obj([bet |-> Str("bet"), balance |-> Str("balance")])}

\* the users a bet may carry: _id and username, and any of rakeback, stats,
\* balance and email
UsersGiven ==
    {Obj([f \in {"_id", "username"} \cup D |->
            IF f = "rakeback" THEN Rakeback ELSE IF f = "stats" THEN st ELSE Str(f)]) :
        D \in SUBSET {"rakeback", "stats", "balance", "email"}, st \in StatsGiven}

\* the bets given: an amount, a user (or undefined, null, none), and possibly a
\* balance or a payout holding undefined
BetsGiven ==
    {Obj([f \in {"amount", "user"} \cup T |->
            IF f = "user" THEN u ELSE IF f = "payout" THEN Undefined ELSE Str(f)]) :
        u \in {Undefined, Null} \cup UsersGiven, T \in {{}, {"balance"}, {"payout"}}}
    \cup {Obj([amount |-> Str("amount")])}

SanitizeInit ==
    /\ RoundInit /\ OutcomeIdle /\ BetIdle /\ FormatIdle
    /\ ConfigIdle /\ UserIdle /\ SocketIdle
    /\ betGiven \in BetsGiven
    /\ sanitizedBets = NoOutput
    /\ sanitizedBet = NoOutput

SanitizeBets ==
    /\ sanitizedBets = NoOutput
    /\ sanitizedBets' = rollSanitizeBets(<<betGiven>>)
    /\ UNCHANGED <<roundVars, outcomeVars, betVars, formatVars, configVars, userVars,
                   socketVars, betGiven, sanitizedBet>>

SanitizeBet ==
    /\ sanitizedBet = NoOutput
    /\ sanitizedBet' = rollSanitizeBet(betGiven)
    /\ UNCHANGED <<roundVars, outcomeVars, betVars, formatVars, configVars, userVars,
                   socketVars, betGiven, sanitizedBets>>

SanitizeNext == SanitizeBets \/ SanitizeBet

SpecSanitize == SanitizeInit /\ [][SanitizeNext]_vars

(***************************************************************************)
(* The socket handlers sendCreditDeposit and checkCreditDeposit, one       *)
(* action per await.  What follows a rejection or a throw runs up to the   *)
(* end of the handler in the same step: the catch blocks hold no await.    *)
(***************************************************************************)
\* callback({ success: false, ... }) called from the given place
Answer(hs, from) ==
    [hs EXCEPT !.callbacks = Append(@, [success |-> FALSE, from |-> from]),
               !.pc = "done"]

\* the outer catch
OuterCatch(hs) == Answer(hs, "outer catch")

\* the inner catch without its socketRemoveAntiSpam
InnerCatchKeepsAntiSpam(hs, removeThrows) ==
    IF removeThrows THEN OuterCatch(hs) ELSE Answer(hs, "inner catch")

\* the inner catch: socketRemoveAntiSpam, then the callback; when
\* socketRemoveAntiSpam throws, the outer catch takes over
InnerCatch(hs, removeThrows) ==
    IF removeThrows
    THEN OuterCatch([hs EXCEPT !.removed = @ + 1])
    ELSE Answer([hs EXCEPT !.removed = @ + 1], "inner catch")

\* the steps between socketCheckAntiSpam and the end of the inner try
InnerSteps == {"User.findById", "socketCheckUserData", "settingCheck", "controller"}

\* the event arrives: the handler returns when callback is no function,
\* answers when socket.decoded is missing, and else awaits the rate limiter
Receive(h, callback, decoded) ==
    /\ handlers[h].pc = "off"
    /\ handlers' = [handlers EXCEPT ![h] =
            LET hs == [@ EXCEPT !.callback = callback, !.decoded = decoded]
            IN  IF ~callback THEN [hs EXCEPT !.pc = "done"]
                ELSE IF ~decoded THEN Answer(hs, "else")
                ELSE [hs EXCEPT !.pc = "rateLimiter.consume"]]
    /\ UNCHANGED <<roundVars, outcomeVars, betVars, formatVars, configVars, userVars,
                   sanitizeVars>>

\* rateLimiter.consume settles
Consume(h, resolved) ==
    /\ handlers[h].pc = "rateLimiter.consume"
    /\ handlers' = [handlers EXCEPT ![h] =
            IF resolved THEN [@ EXCEPT !.pc = "socketCheckAntiSpam"]
            ELSE OuterCatch([@ EXCEPT !.failed = "rateLimiter.consume"])]
    /\ UNCHANGED <<roundVars, outcomeVars, betVars, formatVars, configVars, userVars,
                   sanitizeVars>>

\* socketCheckAntiSpam settles
CheckAntiSpam(h, resolved) ==
    /\ handlers[h].pc = "socketCheckAntiSpam"
    /\ handlers' = [handlers EXCEPT ![h] =
            IF resolved THEN [@ EXCEPT !.antiSpam = TRUE, !.pc = "User.findById"]
            ELSE OuterCatch([@ EXCEPT !.failed = "socketCheckAntiSpam"])]
    /\ UNCHANGED <<roundVars, outcomeVars, betVars, formatVars, configVars, userVars,
                   sanitizeVars>>

\* User.findById settles; when it resolves, socketCheckUserData, settingCheck
\* and the controller run at once.  failed is the step that threw, or "none"
FindUser(h, failed, removeThrows) ==
    /\ handlers[h].pc = "User.findById"
    /\ handlers' = [handlers EXCEPT ![h] =
            IF failed = "none" THEN [@ EXCEPT !.pc = "done"]
            ELSE InnerCatch([@ EXCEPT !.failed = failed], removeThrows)]
    /\ UNCHANGED <<roundVars, outcomeVars, betVars, formatVars, configVars, userVars,
                   sanitizeVars>>

SocketInit == RoundInit /\ OutcomeIdle /\ BetIdle /\ FormatIdle /\ LaterIdle

SocketNext ==
    \/ \E h \in Handlers, callback \in BOOLEAN, decoded \in BOOLEAN :
            Receive(h, callback, decoded)
    \/ \E h \in Handlers, resolved \in BOOLEAN : Consume(h, resolved)
    \/ \E h \in Handlers, resolved \in BOOLEAN : CheckAntiSpam(h, resolved)
    \/ \E h \in Handlers, failed \in InnerSteps \cup {"none"}, removeThrows \in BOOLEAN :
            FindUser(h, failed, removeThrows)

SpecSocket == SocketInit /\ [][SocketNext]_vars

(***************************************************************************)
(* Properties of round generation.                                         *)
(***************************************************************************)
PendingSeeds == {s \in SeedIds : seeds[s] = "created"}
OpenGames == {g \in GameIds : games[g].state = "created"}
GamesOfSeed(s) == {g \in GameIds : games[g].fair.seed = s}

\* C1: the seed store never holds two seeds in state 'created' at the same time
AtMostOnePendingSeed == Cardinality(PendingSeeds) <= 1

\* C2: no two distinct games reference the same seed
NoSeedSharedByGames ==
    \A g1, g2 \in GameIds : g1 # g2 => games[g1].fair.seed # games[g2].fair.seed

\* C3: at most one game is in state 'created' at any time
AtMostOneOpenGame == Cardinality(OpenGames) <= 1

\* C5: once rollGenerateGame has rejected because one of its two store writes
\* failed (and both have settled), the seed it used is not left 'completed'
\* with no game referencing it
NoConsumedSeedWithoutGame ==
    \A c \in Callers :
        (/\ pc[c] = "rejected"
         /\ gameWrite[c] = "fail" \/ seedWrite[c] = "fail"
         /\ gameWrite[c] # "pending" /\ seedWrite[c] # "pending")
        => ~(seeds[seedDatabase[c]] = "completed" /\ GamesOfSeed(seedDatabase[c]) = {})

(***************************************************************************)
(* Properties of the sanitized game.                                       *)
(***************************************************************************)
Resolving == {"rolling", "completed"}
Fairness == {"outcome", "fair"}

\* C6: a sanitized game holds neither outcome nor fair unless the game is
\* rolling or completed, and holds both when it is completed; no view sent to
\* the clients shows either field of a game that has not begun rolling
SanitizedGameHidesFairness ==
    /\ \A g \in GameIds :
        LET s == rollSanitizeGame(games[g])
        IN  /\ games[g].state \notin Resolving => Fairness \cap DOMAIN s = {}
            /\ games[g].state = "completed" => Fairness \subseteq DOMAIN s
    /\ view # NoView =>
        /\ view.state \notin Resolving => Fairness \cap DOMAIN view.data = {}
        /\ view.state = "completed" => Fairness \subseteq DOMAIN view.data
        /\ Fairness \cap DOMAIN view.data # {} => games[view.game].state \in Resolving

\* a 'created' game that carries fair was sent without it, and a completed game
\* is sanitized with outcome and fair
SanitizedGameWitness ==
    /\ view # NoView
    /\ view.state = "created"
    /\ "fair" \in DOMAIN games[view.game]
    /\ "fair" \notin DOMAIN view.data
    /\ \E g \in GameIds :
        /\ games[g].state = "completed"
        /\ Fairness \subseteq DOMAIN rollSanitizeGame(games[g])

(***************************************************************************)
(* Properties of the outcome calculator.                                   *)
(***************************************************************************)
\* the modulus of a 5% house edge
M == 20

\* the modular fold as the specification states it: the chunks of four hex
\* digits are aligned at the tail, the leading partial chunk comes first, and
\* each chunk enters acc = (acc * 2^16 + chunk) mod M
RECURSIVE ChunkFold(_, _)
ChunkFold(str, acc) ==
    IF str = <<>> THEN acc
    ELSE LET k == IF Len(str) % 4 = 0 THEN 4 ELSE Len(str) % 4
         IN  ChunkFold(SubSeq(str, k + 1, Len(str)),
                       (acc * 65536 + parseInt16(SubSeq(str, 1, k))) % M)

FoldIsZero == ChunkFold(combined, 0) = 0

\* h of the claim: the integer value of the leading 13 hex digits
LeadingH == parseInt(SubSeq(combined, 1, IF Len(combined) < 13 THEN Len(combined) ELSE 13))

\* floor((100 * e - h) / (e - h)) in exact integer arithmetic
ExactFloor == BDivMod(BSub(HundredE, LeadingH), BSub(e, LeadingH)).q

\* C7: for every hash whose modular fold with M = 20 is 0, rollGetOutcome
\* returns exactly 100
ZeroFoldGivesHundred ==
    (outcome # NoOutcome /\ FoldIsZero) => outcome = Hundred

\* a hash of at least 13 digits, not starting with 0, folds to 0 and got 100
ZeroFoldWitness ==
    /\ outcome = Hundred
    /\ FoldIsZero
    /\ Len(combined) >= 13
    /\ combined[1] # 0

\* C8: for every hash whose modular fold is not 0, rollGetOutcome returns
\* floor((100 * e - h) / (e - h)), h the leading 13 hex digits, e = 2^52
NonZeroFoldGivesExactFloor ==
    (outcome # NoOutcome /\ ~FoldIsZero) => outcome = ExactFloor

\* C9 as stated: the value returned lies in [0, 100], and in [0, 100) when the
\* modular fold is not 0
OutcomeWithinHundred ==
    outcome # NoOutcome =>
        /\ BLe(outcome, Hundred)
        /\ ~FoldIsZero => BLt(outcome, Hundred)

\* 99 * 2^52, what rollGetOutcome returns for h = 2^52 - 1
MaxOutcome == BShl(BInt(99), 52)

\* C9 as amended: the value returned is an integer from 100 to 99 * 2^52,
\* whether the modular fold is 0 or not
OutcomeAtLeastHundred ==
    outcome # NoOutcome => (BLe(Hundred, outcome) /\ BLe(outcome, MaxOutcome))

\* a hash whose fold is not 0 got an outcome above 100
OutcomeAboveHundredWitness ==
    /\ outcome # NoOutcome
    /\ ~FoldIsZero
    /\ BLt(Hundred, outcome)

(***************************************************************************)
(* Properties of the bet format check.                                     *)
(***************************************************************************)
Missing(x) == x \in {Undefined, Null}
NonNumeric(x) == x = NotANumber
Checked == verdict # NoVerdict
Rejected == verdict # OK

\* the multiplier is missing, non-numeric or <= 100 after floor
BadMultiplier ==
    \/ Missing(betData.multiplier)
    \/ NonNumeric(betData.multiplier)
    \/ Floor(betData.multiplier) <= 100

\* C10 as stated: rollCheckSendBetData rejects a bet exactly when its amount is
\* missing, non-numeric or <= 0, or its multiplier is missing, non-numeric or
\* <= 100 after floor, or its amount is below the configured minimum
FormatRejectsNonPositiveAmount ==
    Checked =>
        (Rejected <=>
            \/ Missing(betData)
            \/ Missing(betData.amount)
            \/ NonNumeric(betData.amount)
            \/ betData.amount.v2 <= 0
            \/ BadMultiplier
            \/ betData.amount.v2 < 2 * minAmount)

\* C10 as amended: rollCheckSendBetData rejects a bet exactly when its amount is
\* missing, non-numeric or below 1 (its floor is <= 0), or its multiplier is
\* missing, non-numeric or <= 100 after floor, or the floor of its amount is
\* below the configured minimum
FormatRejectsAmountBelowOne ==
    Checked =>
        (Rejected <=>
            \/ Missing(betData)
            \/ Missing(betData.amount)
            \/ NonNumeric(betData.amount)
            \/ Floor(betData.amount) <= 0
            \/ BadMultiplier
            \/ Floor(betData.amount) < minAmount)

\* amount 0.5 with multiplier 101 and no minimum was rejected for its amount
FractionalAmountWitness ==
    /\ Checked
    /\ ~Missing(betData)
    /\ betData.amount = Num(1)
    /\ betData.multiplier = Num(202)
    /\ minAmount = 0
    /\ verdict = "invalid bet amount"

(***************************************************************************)
(* Properties of the bet admission.                                        *)
(***************************************************************************)
BetsOf(u) == {i \in DOMAIN bets : bets[i].user = u}

UserChecked == userVerdict # NoVerdict /\ betData # Undefined

\* the sum of the amounts of the bets of u stored from index i on
RECURSIVE TotalBetFrom(_, _)
TotalBetFrom(u, i) ==
    IF i > Len(bets) THEN 0
    ELSE (IF bets[i].user = u THEN Floor(bets[i].amount) ELSE 0) + TotalBetFrom(u, i + 1)

\* floor(amount * multiplier / 100) in exact arithmetic, both counted in halves
ExactWinnings(amount2, multiplier2) == (amount2 * multiplier2) \div 400

\* the sum of floor(amount * multiplier / 100) over the bets of u from index i on
RECURSIVE TotalWinningsFrom(_, _)
TotalWinningsFrom(u, i) ==
    IF i > Len(bets) THEN 0
    ELSE (IF bets[i].user = u
          THEN ExactWinnings(bets[i].amount.v2, bets[i].multiplier.v2)
          ELSE 0) + TotalWinningsFrom(u, i + 1)

TotalBet == TotalBetFrom("u1", 1)
TotalWinnings == TotalWinningsFrom("u1", 1)
SufficientBalance == balance >= Floor(betData.amount)

\* balance 1000, an existing bet of 900 in the round, a new bet of 200
NewBetAfterNineHundred ==
    /\ UserChecked
    /\ balance = 1000
    /\ TotalBet = 900
    /\ betData.amount = Num(400)

\* C11 as stated: with balance 1000 and an existing bet of 900 in the round,
\* rollCheckSendBetUser rejects a new bet of 200 with the insufficient-balance
\* error
ExistingBetCountsAgainstBalance ==
    NewBetAfterNineHundred => userVerdict = "not enough balance"

\* C11 as amended: rollCheckSendBetUser gives the insufficient-balance error
\* exactly when the balance is below the amount of the new bet alone; with
\* balance 1000 and an existing bet of 900 a new bet of 200 is not rejected for
\* its balance, and is rejected for the maximum amount exactly when that
\* ceiling is below 1100
RawBalanceDecides ==
    /\ UserChecked =>
        (userVerdict = "not enough balance" <=> balance < Floor(betData.amount))
    /\ NewBetAfterNineHundred =>
        /\ userVerdict # "not enough balance"
        /\ userVerdict = "max amount" <=> maxAmount < 1100

\* the new bet of 200 after 900 was accepted
NewBetAfterNineHundredWitness ==
    /\ NewBetAfterNineHundred
    /\ userVerdict = OK

\* C12 as stated: with a sufficient balance, rollCheckSendBetUser rejects a bet
\* for the maximum amount exactly when stats.totalBet + bet.amount is strictly
\* greater than the ceiling
MaxBetRejectsAboveCeiling ==
    (UserChecked /\ SufficientBalance) =>
        (userVerdict = "max amount" <=> 2 * TotalBet + betData.amount.v2 > 2 * maxAmount)

\* C12 as amended: with a sufficient balance, rollCheckSendBetUser rejects a bet
\* for the maximum amount exactly when floor(stats.totalBet + bet.amount) is
\* strictly greater than the ceiling, and accepts a sum equal to it
MaxBetRejectsFlooredSum ==
    (UserChecked /\ SufficientBalance) =>
        (userVerdict = "max amount" <=> TotalBet + Floor(betData.amount) > maxAmount)

\* ceiling 1000, existing total 800: amount 200 was accepted
SumAtCeilingWitness ==
    /\ UserChecked
    /\ maxAmount = 1000
    /\ TotalBet = 800
    /\ betData.amount = Num(400)
    /\ userVerdict = OK

\* C13: with a sufficient balance and a bet within the maximum amount,
\* rollCheckSendBetUser rejects the bet exactly when the sum over the user's
\* bets of floor(amount * multiplier / 100), plus floor(amount * multiplier /
\* 100) of the new bet, is strictly greater than the maximum profit
MaxProfitRejectsExactFloor ==
    (/\ UserChecked
     /\ SufficientBalance
     /\ TotalBet + Floor(betData.amount) <= maxAmount)
    => (userVerdict = "max profit"
            <=> TotalWinnings + ExactWinnings(betData.amount.v2, betData.multiplier.v2)
                    > maxProfit)

(***************************************************************************)
(* Properties of the bet sanitizers.                                       *)
(***************************************************************************)
\* x holds a balance field, at any depth
RECURSIVE HasBalance(_)
HasBalance(x) ==
    /\ x.t = "object"
    /\ \/ "balance" \in DOMAIN x.o
       \/ \E f \in DOMAIN x.o : HasBalance(x.o[f])

\* the sanitized bets that were returned
SanitizedOutputs ==
    (IF sanitizedBets.t = "array" THEN {sanitizedBets.a[1]} ELSE {})
        \cup (IF sanitizedBet.t = "object" THEN {sanitizedBet} ELSE {})

\* C14 as stated: whatever fields the bet and its user carry, what
\* rollSanitizeBets([b])[0] and rollSanitizeBet(b) return holds no balance field
SanitizedBetHoldsNoBalance ==
    \A out \in SanitizedOutputs : ~HasBalance(out)

\* C14 as amended: the user of a sanitized bet holds the nine public fields and
\* nothing else, each with the value the user of the bet had (rakeback with the
\* name of the user's rakeback), so that no balance or other field of the user
\* passes; a balance is found in the output only when the bet itself or the
\* stats of its user carry one
SanitizedUserIsPublic ==
    \A out \in SanitizedOutputs :
        /\ DOMAIN out.o.user.o = PublicFields
        /\ \A f \in PublicFields \ {"rakeback"} :
                out.o.user.o[f] = Get(Get(betGiven, "user"), f)
        /\ out.o.user.o.rakeback = Get(Get(Get(betGiven, "user"), "rakeback"), "name")
        /\ HasBalance(out) =>
                \/ "balance" \in DOMAIN betGiven.o
                \/ HasBalance(Get(Get(betGiven, "user"), "stats"))

\* a bet whose user carries a balance and an email was sanitized both ways,
\* and neither output holds a balance
UserBalanceDroppedWitness ==
    /\ sanitizedBets.t = "array"
    /\ sanitizedBet.t = "object"
    /\ {"balance", "email"} \subseteq DOMAIN betGiven.o.user.o
    /\ \A out \in SanitizedOutputs : ~HasBalance(out)

(***************************************************************************)
(* Properties of the round state check.                                    *)
(***************************************************************************)
Open(rollGame) == rollGame \notin {Undefined, Null} /\ rollGame.state = "created"

\* C15: rollCheckSendBetGame fails for a missing round and for every round
\* whose state is not 'created' and succeeds for a 'created' round, so that an
\* admission passes its checks only while the round is 'created'
OnlyOpenRoundAdmits ==
    /\ [](/\ rollCheckSendBetGame(Undefined) # OK
          /\ rollCheckSendBetGame(Null) # OK
          /\ rollCheckSendBetGame(CurrentGame) = OK <=> Open(CurrentGame)
          /\ \A g \in GameIds : rollCheckSendBetGame(games[g]) = OK <=> Open(games[g]))
    /\ [][\A r \in Requests :
            (apc[r] = "check" /\ apc'[r] = "persist") => Open(CurrentGame)]_vars

\* one bet of the user was admitted while the round was 'created', a later one
\* was refused because the round was not
RoundClosedWitness ==
    /\ BetsOf("u1") # {}
    /\ \E r \in Requests : aresult[r] = "wait for the next round"

(***************************************************************************)
(* Properties of the seed of an open game.                                 *)
(***************************************************************************)
\* C16: in no reachable state, the states between the two writes of
\* rollGenerateGame included, is a game in state 'created' while the seed it
\* references is still in state 'created'
NoOpenGameOnPendingSeed ==
    \A g \in GameIds :
        games[g].state = "created" => seeds[games[g].fair.seed] # "created"

(***************************************************************************)
(* Properties of the chunked fold.                                         *)
(***************************************************************************)
\* the integer value of a hex string modulo m, digit by digit after acc
RECURSIVE HexValueMod(_, _, _)
HexValueMod(str, m, acc) ==
    IF str = <<>> THEN acc
    ELSE HexValueMod(Tail(str), m, (acc * 16 + Head(str)) % m)

\* every accumulator the loop of rollIsHashDivisible shifts, from index i with
\* accumulator val, is below 2^15, so that val << 16 stays below 2^31
RECURSIVE ShiftStaysInRange(_, _, _, _)
ShiftStaysInRange(str, m, i, val) ==
    i < Len(str) =>
        /\ 0 <= val /\ val < 2^15
        /\ Shl16(val) = val * 2^16
        /\ ShiftStaysInRange(str, m, i + 4,
                Rem(Shl16(val) + parseInt16(substring(str, i, i + 4)), m))

\* C17: for every hex string, of a length that is a multiple of 4 or not, and
\* modulus 20, rollIsHashDivisible returns true exactly when the integer value
\* of the whole string is divisible by 20, and no shifted accumulator leaves
\* the 32-bit range
FoldDecidesDivisibility ==
    /\ rollIsHashDivisible(combined, mod) <=> HexValueMod(combined, M, 0) = 0
    /\ ShiftStaysInRange(combined, mod,
                         IF Len(combined) % 4 > 0 THEN (Len(combined) % 4) - 4 ELSE 0, 0)

\* a hash of more than four digits, its length not a multiple of 4, its first
\* digit not 0, was found divisible and got the outcome 100
PartialChunkWitness ==
    /\ outcome = Hundred
    /\ Len(combined) > 4
    /\ Len(combined) % 4 # 0
    /\ combined[1] # 0
    /\ rollIsHashDivisible(combined, mod)
    /\ HexValueMod(combined, M, 0) = 0

(***************************************************************************)
(* Properties of the socket handlers.                                      *)
(***************************************************************************)
AnsweredOnce(h) ==
    /\ Len(handlers[h].callbacks) = 1
    /\ handlers[h].callbacks[1].success = FALSE

\* C18: in both handlers, for an authenticated socket with a function
\* callback: when socketCheckAntiSpam has succeeded and the user lookup,
\* socketCheckUserData, settingCheck or the controller call throws, the handler
\* calls socketRemoveAntiSpam and calls the callback exactly once with
\* success false; when the rate limiter or socketCheckAntiSpam rejects, the
\* callback is called exactly once with success false and
\* socketRemoveAntiSpam is not called
HandlerAnswersOnce ==
    \A h \in Handlers :
        (handlers[h].callback /\ handlers[h].decoded) =>
            /\ handlers[h].failed \in InnerSteps =>
                    /\ handlers[h].antiSpam
                    /\ handlers[h].removed = 1
                    /\ AnsweredOnce(h)
            /\ handlers[h].failed \in {"rateLimiter.consume", "socketCheckAntiSpam"} =>
                    /\ handlers[h].removed = 0
                    /\ AnsweredOnce(h)
            /\ handlers[h].failed = "none" => handlers[h].callbacks = <<>>

\* one handler saw its controller throw after socketCheckAntiSpam succeeded,
\* the other saw socketCheckAntiSpam reject
HandlersFailedWitness ==
    /\ handlers["sendCreditDeposit"].failed = "controller"
    /\ handlers["sendCreditDeposit"].removed = 1
    /\ AnsweredOnce("sendCreditDeposit")
    /\ handlers["checkCreditDeposit"].failed = "socketCheckAntiSpam"
    /\ handlers["checkCreditDeposit"].removed = 0
    /\ AnsweredOnce("checkCreditDeposit")

====
